---- MODULE Spec2Model ----
(***************************************************************************)
(* Model of internal/torcx/types.go: the ArchiveFormat and Archive JSON    *)
(* decoders, the Image V0/V1 schema converters and the remote catalog      *)
(* converter.                                                              *)
(*                                                                         *)
(* Conventions.                                                            *)
(*  - A Go slice is a record [isNil, elems]: Go distinguishes a nil slice  *)
(*    from an empty one, and append() always yields a non-nil slice.       *)
(*  - A Go map is a TLA+ function whose DOMAIN is the key set.             *)
(*  - An optional result ("not computed yet") is a sequence of length 0    *)
(*    or 1.                                                                *)
(*  - A JSON value on the wire is a record [kind, val], kind being one of  *)
(*    "absent" (the key is not in the object), "null", "num" (a value of   *)
(*    a non-string JSON type) and "str" (val is the string).               *)
(***************************************************************************)
EXTENDS Integers, Sequences, FiniteSets, TLC

VARIABLES
    im,        \* Image handed to the single-item converters
    wireV0,    \* optional ImageV0 produced by im.ToJSONV0()
    fromV0,    \* optional Image produced by ImageFromJSONV0(wireV0)
    wireV1,    \* optional ImageV1 produced by im.ToJSONV1()
    fromV1,    \* optional Image produced by ImageFromJSONV1(wireV1)
    ims,       \* []Image handed to ImagesToJSONV0
    listV0,    \* optional ImagesV0 produced by ImagesToJSONV0(ims)
    listBack,  \* optional []Image produced by ImagesFromJSONV0(listV0)
    arf,       \* an ArchiveFormat variable, target of ArchiveFormat.UnmarshalJSON
    fmtIn,     \* optional JSON value last handed to ArchiveFormat.UnmarshalJSON
    fmtErr,    \* error returned by that call
    fmtEnc,    \* optional JSON value produced by encoding arf
    sufIn,     \* optional ArchiveFormat last handed to FileSuffix
    suffix,    \* optional string returned by that call
    ar,        \* an Archive variable, target of Archive.UnmarshalJSON
    arDoc,     \* optional document last handed to Archive.UnmarshalJSON
    arErr,     \* error returned by that call
    catalog,   \* RemoteImagesV1 handed to RemoteContentsFromJSONV1
    contents   \* optional RemoteContents produced from catalog

imageVars   == <<im, wireV0, fromV0, wireV1, fromV1, ims, listV0, listBack>>
formatVars  == <<arf, fmtIn, fmtErr, fmtEnc, sufIn, suffix>>
archiveVars == <<ar, arDoc, arErr>>
remoteVars  == <<catalog, contents>>
vars == <<imageVars, formatVars, archiveVars, remoteVars>>

None == <<>>
Some(x) == <<x>>

(***************************************************************************)
(* Bounds of the model.                                                    *)
(***************************************************************************)
MaxImages == 2      \* longest []Image converted
MaxEntries == 2     \* most image entries in a wire catalog
MaxVersions == 2    \* most versions of one catalog entry

SeqsUpTo(S, n) == UNION {[1..k -> S] : k \in 0..n}

(***************************************************************************)
(* Go slices.                                                              *)
(***************************************************************************)
NilSlice == [isNil |-> TRUE, elems |-> <<>>]
EmptySlice == [isNil |-> FALSE, elems |-> <<>>]
SliceOf(s) == [isNil |-> FALSE, elems |-> s]
GoAppend(sl, x) == [isNil |-> FALSE, elems |-> Append(sl.elems, x)]
Slices(S, n) == {NilSlice} \cup {SliceOf(s) : s \in SeqsUpTo(S, n)}

(***************************************************************************)
(* Image and its two wire generations.                                     *)
(***************************************************************************)
ImageNames == {"etcd", "docker"}
ImageReferences == {"1", "2"}
ImageRemotes == {"", "r1"}

Image == [Name : ImageNames, Reference : ImageReferences, Remote : ImageRemotes]

ToJSONV0(i) == [Name |-> i.Name, Reference |-> i.Reference]

\* variant: Reference filled from the wrong wire field
ImageFromJSONV0_wrongField(j) == [Name |-> j.Name, Reference |-> j.Name, Remote |-> ""]

ImageFromJSONV0(j) == [Name |-> j.Name, Reference |-> j.Reference, Remote |-> ""]

ToJSONV1(i) == [Name |-> i.Name, Reference |-> i.Reference, Remote |-> ""]

ImageFromJSONV1(j) == [Name |-> j.Name, Reference |-> j.Reference, Remote |-> j.Remote]

\* the loop of ImagesToJSONV0 over ims[1..n], starting from ImagesV0{}
RECURSIVE ImagesToJSONV0Loop(_, _)
ImagesToJSONV0Loop(list, n) ==
    IF n = 0 THEN [Images |-> NilSlice]
    ELSE LET j == ImagesToJSONV0Loop(list, n - 1)
             entry == ToJSONV0(list.elems[n])
         IN [Images |-> GoAppend(j.Images, entry)]

ImagesToJSONV0(list) == ImagesToJSONV0Loop(list, Len(list.elems))

\* variant: var result []Image instead of result := []Image{}
ImagesFromJSONV0Start_nil == NilSlice

ImagesFromJSONV0Start == EmptySlice

\* the loop of ImagesFromJSONV0 over j.Images[1..n], starting from []Image{}
RECURSIVE ImagesFromJSONV0Loop(_, _)
ImagesFromJSONV0Loop(j, n) ==
    IF n = 0 THEN ImagesFromJSONV0Start
    ELSE LET result == ImagesFromJSONV0Loop(j, n - 1)
             entry == ImageFromJSONV0(j.Images.elems[n])
         IN GoAppend(result, entry)

ImagesFromJSONV0(j) == ImagesFromJSONV0Loop(j, Len(j.Images.elems))

InitImage ==
    /\ im \in Image
    /\ wireV0 = None /\ fromV0 = None
    /\ wireV1 = None /\ fromV1 = None
    /\ ims \in Slices(Image, MaxImages)
    /\ listV0 = None /\ listBack = None

DoToJSONV0 ==
    /\ wireV0 = None
    /\ wireV0' = Some(ToJSONV0(im))
    /\ UNCHANGED <<im, fromV0, wireV1, fromV1, ims, listV0, listBack>>

DoImageFromJSONV0 ==
    /\ wireV0 # None /\ fromV0 = None
    /\ fromV0' = Some(ImageFromJSONV0(wireV0[1]))
    /\ UNCHANGED <<im, wireV0, wireV1, fromV1, ims, listV0, listBack>>

DoToJSONV1 ==
    /\ wireV1 = None
    /\ wireV1' = Some(ToJSONV1(im))
    /\ UNCHANGED <<im, wireV0, fromV0, fromV1, ims, listV0, listBack>>

DoImageFromJSONV1 ==
    /\ wireV1 # None /\ fromV1 = None
    /\ fromV1' = Some(ImageFromJSONV1(wireV1[1]))
    /\ UNCHANGED <<im, wireV0, fromV0, wireV1, ims, listV0, listBack>>

DoImagesToJSONV0 ==
    /\ listV0 = None
    /\ listV0' = Some(ImagesToJSONV0(ims))
    /\ UNCHANGED <<im, wireV0, fromV0, wireV1, fromV1, ims, listBack>>

DoImagesFromJSONV0 ==
    /\ listV0 # None /\ listBack = None
    /\ listBack' = Some(ImagesFromJSONV0(listV0[1]))
    /\ UNCHANGED <<im, wireV0, fromV0, wireV1, fromV1, ims, listV0>>

(***************************************************************************)
(* JSON values on the wire.                                                *)
(***************************************************************************)
Absent == [kind |-> "absent", val |-> ""]
JNull == [kind |-> "null", val |-> ""]
JNum == [kind |-> "num", val |-> ""]
JStr(s) == [kind |-> "str", val |-> s]

ErrNone == "nil"
ErrMalformedJSON == "MalformedJSON"
ErrInvalidArchiveFormat == "InvalidArchiveFormat"

(***************************************************************************)
(* ArchiveFormat.                                                          *)
(***************************************************************************)
ArchiveFormatUnknown == ""
ArchiveFormatTgz == "tgz"
ArchiveFormatSquashfs == "squashfs"

FormatStrings == {"", "tgz", "squashfs", "TGZ", "tar"}
FormatInputs == {JNull, JNum} \cup {JStr(s) : s \in FormatStrings}

\* json.Unmarshal(b, &s) with s := "": a string is stored, null leaves s
\* alone, a value of any other JSON type is an error
UnmarshalString(b) ==
    CASE b.kind = "str" -> [err |-> ErrNone, s |-> b.val]
      [] b.kind = "null" -> [err |-> ErrNone, s |-> ""]
      [] OTHER -> [err |-> ErrMalformedJSON, s |-> ""]

\* variant: the empty string is let through and leaves *arf alone
FormatUnmarshalJSON_emptyOk(cur, b) ==
    LET r == UnmarshalString(b) IN
    IF r.err # ErrNone THEN [err |-> r.err, arf |-> cur]
    ELSE CASE r.s = ArchiveFormatTgz -> [err |-> ErrNone, arf |-> ArchiveFormatTgz]
           [] r.s = ArchiveFormatSquashfs -> [err |-> ErrNone, arf |-> ArchiveFormatSquashfs]
           [] r.s = "" -> [err |-> ErrNone, arf |-> cur]
           [] OTHER -> [err |-> ErrInvalidArchiveFormat, arf |-> cur]

\* variant: the default branch stores tgz instead of failing
FormatUnmarshalJSON_defaultTgz(cur, b) ==
    LET r == UnmarshalString(b) IN
    IF r.err # ErrNone THEN [err |-> r.err, arf |-> cur]
    ELSE CASE r.s = ArchiveFormatSquashfs -> [err |-> ErrNone, arf |-> ArchiveFormatSquashfs]
           [] OTHER -> [err |-> ErrNone, arf |-> ArchiveFormatTgz]

\* (*ArchiveFormat).UnmarshalJSON: cur is the value *arf holds at the call
FormatUnmarshalJSON(cur, b) ==
    LET r == UnmarshalString(b) IN
    IF r.err # ErrNone THEN [err |-> r.err, arf |-> cur]
    ELSE CASE r.s = ArchiveFormatTgz -> [err |-> ErrNone, arf |-> ArchiveFormatTgz]
           [] r.s = ArchiveFormatSquashfs -> [err |-> ErrNone, arf |-> ArchiveFormatSquashfs]
           [] OTHER -> [err |-> ErrInvalidArchiveFormat, arf |-> cur]

\* ArchiveFormat has no MarshalJSON: a value of a string type is encoded as
\* the JSON string of its contents
FormatMarshalJSON(f) == JStr(f)

\* variant: the suffix does not depend on the format
FileSuffix_fixed(f) == ".torcx.tgz"

FileSuffix(f) == ".torcx." \o f

InitFormat ==
    /\ arf = ArchiveFormatUnknown
    /\ fmtIn = None /\ fmtErr = ErrNone /\ fmtEnc = None
    /\ sufIn = None /\ suffix = None

\* a previous encoding is of a value arf may no longer hold: it is dropped
DoFormatUnmarshal ==
    \E b \in FormatInputs :
        LET r == FormatUnmarshalJSON(arf, b) IN
        /\ arf' = r.arf
        /\ fmtErr' = r.err
        /\ fmtIn' = Some(b)
        /\ fmtEnc' = None
        /\ UNCHANGED <<sufIn, suffix>>

DoFormatMarshal ==
    /\ fmtEnc = None
    /\ fmtEnc' = Some(FormatMarshalJSON(arf))
    /\ UNCHANGED <<arf, fmtIn, fmtErr, sufIn, suffix>>

DoFileSuffix ==
    /\ sufIn # Some(arf)
    /\ sufIn' = Some(arf)
    /\ suffix' = Some(FileSuffix(arf))
    /\ UNCHANGED <<arf, fmtIn, fmtErr, fmtEnc>>

(***************************************************************************)
(* Archive.  The embedded Image contributes its three fields.              *)
(***************************************************************************)
ArchiveZero ==
    [Name |-> "", Reference |-> "", Remote |-> "", Filepath |-> "",
     Format |-> ArchiveFormatUnknown]

DocNames == {Absent, JStr("etcd"), JStr("docker")}
DocReferences == {Absent, JStr("1")}
DocRemotes == {Absent, JStr("r1")}
DocFilepaths == {Absent, JStr("/a")}
DocFormats == {Absent} \cup FormatInputs

\* a document json.Unmarshal rejects before it stores anything
MalformedDoc ==
    [wf |-> FALSE, name |-> Absent, reference |-> Absent, remote |-> Absent,
     filepath |-> Absent, format |-> Absent]

ArchiveDocs ==
    [wf : {TRUE}, name : DocNames, reference : DocReferences,
     remote : DocRemotes, filepath : DocFilepaths, format : DocFormats]
    \cup {MalformedDoc}

\* variant: the document is decoded over the target's current contents
NewArchiveAlias_reuse(cur) == cur

\* var arAlias archiveAlias: a fresh zero value, whatever *ar holds
NewArchiveAlias(cur) == ArchiveZero

\* a string field of the struct: stored when the key is present
StoreField(old, v) == IF v.kind = "str" THEN v.val ELSE old

\* json.Unmarshal(b, &arAlias): each key present in the document is stored
\* into its field; the format field has ArchiveFormat's UnmarshalJSON,
\* whose error ends the decoding
UnmarshalAlias(alias, doc) ==
    IF ~doc.wf THEN [err |-> ErrMalformedJSON, val |-> alias]
    ELSE LET plain == [alias EXCEPT !.Name = StoreField(@, doc.name),
                                    !.Reference = StoreField(@, doc.reference),
                                    !.Remote = StoreField(@, doc.remote),
                                    !.Filepath = StoreField(@, doc.filepath)]
         IN IF doc.format.kind = "absent" THEN [err |-> ErrNone, val |-> plain]
            ELSE LET f == FormatUnmarshalJSON(plain.Format, doc.format)
                 IN [err |-> f.err, val |-> [plain EXCEPT !.Format = f.arf]]

\* variant: the format is set to tgz without the test
DefaultFormat_always(alias) == [alias EXCEPT !.Format = ArchiveFormatTgz]

\* if arAlias.Format == ArchiveFormatUnknown { arAlias.Format = ArchiveFormatTgz }
DefaultFormat(alias) ==
    IF alias.Format = ArchiveFormatUnknown
    THEN [alias EXCEPT !.Format = ArchiveFormatTgz]
    ELSE alias

\* (*Archive).UnmarshalJSON: cur is the value *ar holds at the call
ArchiveUnmarshalJSON(cur, doc) ==
    LET r == UnmarshalAlias(NewArchiveAlias(cur), doc) IN
    IF r.err # ErrNone THEN [err |-> r.err, ar |-> cur]
    ELSE [err |-> ErrNone, ar |-> DefaultFormat(r.val)]

InitArchive ==
    /\ ar = ArchiveZero
    /\ arDoc = None
    /\ arErr = ErrNone

DoArchiveUnmarshal ==
    \E doc \in ArchiveDocs :
        LET r == ArchiveUnmarshalJSON(ar, doc) IN
        /\ ar' = r.ar
        /\ arErr' = r.err
        /\ arDoc' = Some(doc)

(***************************************************************************)
(* Remote catalog.  The wire slices are only ranged over, so they are      *)
(* plain sequences.                                                        *)
(***************************************************************************)
CatalogNames == {"", "etcd", "docker"}
DefaultVersions == {"1", "2"}
RemoteVersionV1 ==
    {[Format |-> "tgz", Version |-> "1", Hash |-> "h1", Location |-> "l1"],
     [Format |-> "squashfs", Version |-> "2", Hash |-> "h2", Location |-> "l2"]}
RemoteImageV1 ==
    [Name : CatalogNames, DefaultVersion : DefaultVersions,
     Versions : SeqsUpTo(RemoteVersionV1, MaxVersions)]
RemoteImagesV1 == [Images : SeqsUpTo(RemoteImageV1, MaxEntries)]

RemoteVersionFromJSONV1(j) ==
    [format |-> j.Format, hash |-> j.Hash, location |-> j.Location,
     version |-> j.Version]

\* the inner loop over im.Versions[1..n], starting from []RemoteVersion{}
RECURSIVE VersionsLoop(_, _)
VersionsLoop(vs, n) ==
    IF n = 0 THEN EmptySlice
    ELSE GoAppend(VersionsLoop(vs, n - 1), RemoteVersionFromJSONV1(vs[n]))

\* variant: no entry is skipped
SkipEntry_never(e) == FALSE

\* if im.Name == "" { continue }
SkipEntry(e) == e.Name = ""

\* variant: an existing key is kept
MapStore_keepFirst(m, k, v) ==
    IF k \in DOMAIN m THEN m
    ELSE [x \in DOMAIN m \cup {k} |-> IF x = k THEN v ELSE m[x]]

\* images[k] = v
MapStore(m, k, v) == [x \in DOMAIN m \cup {k} |-> IF x = k THEN v ELSE m[x]]

\* the outer loop over j.Images[1..n], starting from map[string]RemoteImage{}
RECURSIVE ContentsLoop(_, _)
ContentsLoop(j, n) ==
    IF n = 0 THEN <<>>
    ELSE LET images == ContentsLoop(j, n - 1)
             e == j.Images[n]
         IN IF SkipEntry(e) THEN images
            ELSE LET tmpVersions == VersionsLoop(e.Versions, Len(e.Versions))
                     tmpImage == [name |-> e.Name,
                                  defaultVersion |-> e.DefaultVersion,
                                  versions |-> tmpVersions]
                 IN MapStore(images, e.Name, tmpImage)

RemoteContentsFromJSONV1(j) == [Images |-> ContentsLoop(j, Len(j.Images))]

InitRemote ==
    /\ catalog \in RemoteImagesV1
    /\ contents = None

DoRemoteContentsFromJSONV1 ==
    /\ contents = None
    /\ contents' = Some(RemoteContentsFromJSONV1(catalog))
    /\ UNCHANGED catalog

(***************************************************************************)
(* Specifications: one per component; the other components stay as         *)
(* constructed.                                                            *)
(***************************************************************************)
RestImage ==
    /\ im = [Name |-> "etcd", Reference |-> "1", Remote |-> ""]
    /\ wireV0 = None /\ fromV0 = None /\ wireV1 = None /\ fromV1 = None
    /\ ims = NilSlice /\ listV0 = None /\ listBack = None

RestRemote ==
    /\ catalog = [Images |-> <<>>]
    /\ contents = None

NextImage ==
    /\ \/ DoToJSONV0
       \/ DoImageFromJSONV0
       \/ DoToJSONV1
       \/ DoImageFromJSONV1
       \/ DoImagesToJSONV0
       \/ DoImagesFromJSONV0
    /\ UNCHANGED <<formatVars, archiveVars, remoteVars>>

StartImage == InitImage /\ InitFormat /\ InitArchive /\ RestRemote

SpecImage == StartImage /\ [][NextImage]_vars

NextFormat ==
    /\ \/ DoFormatUnmarshal
       \/ DoFormatMarshal
       \/ DoFileSuffix
    /\ UNCHANGED <<imageVars, archiveVars, remoteVars>>

StartFormat == RestImage /\ InitFormat /\ InitArchive /\ RestRemote

SpecFormat == StartFormat /\ [][NextFormat]_vars

NextArchive ==
    /\ DoArchiveUnmarshal
    /\ UNCHANGED <<imageVars, formatVars, remoteVars>>

StartArchive == RestImage /\ InitFormat /\ InitArchive /\ RestRemote

SpecArchive == StartArchive /\ [][NextArchive]_vars

NextRemote ==
    /\ DoRemoteContentsFromJSONV1
    /\ UNCHANGED <<imageVars, formatVars, archiveVars>>

StartRemote == RestImage /\ InitFormat /\ InitArchive /\ InitRemote

SpecRemote == StartRemote /\ [][NextRemote]_vars

(***************************************************************************)
(* Properties.                                                             *)
(***************************************************************************)

\* C1: the V1 round trip is lossless: ImageFromJSONV1(im.ToJSONV1()) equals
\* im in name, reference and remote, for every Image.
C1_V1RoundTripLossless ==
    fromV1 # None =>
        /\ fromV1[1].Name = im.Name
        /\ fromV1[1].Reference = im.Reference
        /\ fromV1[1].Remote = im.Remote

\* C2: the V0 round trip loses only remote: ImageFromJSONV0(im.ToJSONV0())
\* is im with remote set to "", so it equals im exactly when im.Remote is "".
C2_V0RoundTripDropsRemote ==
    fromV0 # None =>
        /\ fromV0[1] = [Name |-> im.Name, Reference |-> im.Reference, Remote |-> ""]
        /\ (fromV0[1] = im) <=> (im.Remote = "")

C2_Witness ==
    /\ fromV0 # None
    /\ im.Remote # ""
    /\ fromV0[1] # im

\* C8: ImagesFromJSONV0(ImagesToJSONV0(ims)) has the length of ims and, at
\* each index, the name and reference of ims' element there; the result is
\* never a nil slice, so an empty or nil input gives a non-nil empty list.
C8_ListRoundTripV0 ==
    listBack # None =>
        LET out == listBack[1] IN
        /\ Len(out.elems) = Len(ims.elems)
        /\ \A i \in 1..Len(ims.elems) :
              /\ out.elems[i].Name = ims.elems[i].Name
              /\ out.elems[i].Reference = ims.elems[i].Reference
        /\ ~out.isNil
        /\ (Len(ims.elems) = 0 => out = EmptySlice)

C8_Witness ==
    /\ listBack # None
    /\ ims.isNil
    /\ listV0[1].Images.isNil
    /\ listBack[1] = EmptySlice

\* C5: ArchiveFormat decoding accepts exactly the strings "tgz" and
\* "squashfs": for these it succeeds, stores the format, and the stored value
\* encodes back to the input string; for any other string it fails with the
\* invalid-archive-format error.
C5_FormatAcceptsExactlyTwo ==
    (fmtIn # None /\ fmtIn[1].kind = "str") =>
        IF fmtIn[1].val \in {"tgz", "squashfs"}
        THEN /\ fmtErr = ErrNone
             /\ arf = fmtIn[1].val
             /\ (fmtEnc # None => fmtEnc[1] = fmtIn[1])
        ELSE fmtErr = ErrInvalidArchiveFormat

C5_Witness ==
    /\ fmtIn = Some(JStr("squashfs"))
    /\ fmtErr = ErrNone
    /\ fmtEnc = Some(JStr("squashfs"))

\* C9 as stated: for every ArchiveFormat value (unknown, tgz, squashfs)
\* FileSuffix returns ".torcx.tgz" or ".torcx.squashfs", tgz giving the
\* first and squashfs the second.
C9_SuffixAlwaysCanonical ==
    suffix # None =>
        /\ suffix[1] \in {".torcx.tgz", ".torcx.squashfs"}
        /\ (sufIn[1] = ArchiveFormatTgz => suffix[1] = ".torcx.tgz")
        /\ (sufIn[1] = ArchiveFormatSquashfs => suffix[1] = ".torcx.squashfs")

\* C9 amended: FileSuffix maps tgz to ".torcx.tgz" and squashfs to
\* ".torcx.squashfs"; for the unknown format "" it returns ".torcx.", which
\* is neither of the two canonical suffixes.
C9_SuffixOfFormat ==
    suffix # None =>
        /\ (sufIn[1] = ArchiveFormatTgz => suffix[1] = ".torcx.tgz")
        /\ (sufIn[1] = ArchiveFormatSquashfs => suffix[1] = ".torcx.squashfs")
        /\ (sufIn[1] = ArchiveFormatUnknown => suffix[1] = ".torcx.")

C9_Witness ==
    /\ sufIn = Some(ArchiveFormatSquashfs)
    /\ suffix = Some(".torcx.squashfs")

\* C3: decoding a well-formed Archive document without a format key
\* succeeds and gives Format tgz, whatever its other fields; with format
\* "tgz" or "squashfs" it succeeds and gives exactly that format.
C3_AbsentFormatDefaultsToTgz ==
    (arDoc # None /\ arDoc[1].wf) =>
        LET f == arDoc[1].format IN
        /\ f.kind = "absent" => (arErr = ErrNone /\ ar.Format = ArchiveFormatTgz)
        /\ f \in {JStr("tgz"), JStr("squashfs")} =>
              (arErr = ErrNone /\ ar.Format = f.val)

C3_Witness ==
    /\ arDoc # None
    /\ arDoc[1].wf
    /\ arDoc[1].format = Absent
    /\ arDoc[1].name = JStr("etcd")
    /\ arErr = ErrNone
    /\ ar.Name = "etcd"
    /\ ar.Format = ArchiveFormatTgz

\* C4: decoding an Archive document whose format is the empty string fails
\* with the invalid-archive-format error and does not touch the target (no
\* tgz default is applied), while a document without a format key decodes
\* without error.
C4_ExplicitEmptyFormatRejected ==
    [][(arDoc' # None /\ arDoc'[1].wf) =>
          /\ arDoc'[1].format = JStr("") =>
                (arErr' = ErrInvalidArchiveFormat /\ ar' = ar)
          /\ arDoc'[1].format = Absent => arErr' = ErrNone]_vars

C4_Witness ==
    /\ arDoc # None
    /\ arDoc[1].wf
    /\ arDoc[1].format = JStr("")
    /\ arErr = ErrInvalidArchiveFormat
    /\ ar.Format = ArchiveFormatUnknown

\* the string a document gives a field: "" when the key is absent
DocString(v) == IF v.kind = "str" THEN v.val ELSE ""

\* C10: every decode into the same Archive variable is all-or-nothing: a
\* failed decode leaves the target as it was, and a successful one makes
\* every field a function of the document alone, with Format tgz or
\* squashfs.
C10_DecodeAllOrNothing ==
    [][arDoc' # None =>
          LET doc == arDoc'[1] IN
          /\ arErr' # ErrNone => ar' = ar
          /\ arErr' = ErrNone =>
                /\ ar'.Name = DocString(doc.name)
                /\ ar'.Reference = DocString(doc.reference)
                /\ ar'.Remote = DocString(doc.remote)
                /\ ar'.Filepath = DocString(doc.filepath)
                /\ ar'.Format \in {ArchiveFormatTgz, ArchiveFormatSquashfs}
                /\ ar'.Format = IF doc.format.kind = "absent"
                                THEN ArchiveFormatTgz ELSE doc.format.val]_vars

C10_Witness ==
    /\ arDoc # None
    /\ arErr # ErrNone
    /\ ar.Name = "docker"
    /\ ar.Format = ArchiveFormatSquashfs

NamesOf(j) == {j.Images[i].Name : i \in 1..Len(j.Images)}

\* C6: RemoteContentsFromJSONV1 drops the entries with an empty name: the
\* keys of Images are exactly the non-empty names of the input entries, ""
\* is never a key, and every stored RemoteImage is named as its key.
C6_EmptyNamesDropped ==
    contents # None =>
        LET m == contents[1].Images IN
        /\ DOMAIN m = NamesOf(catalog) \ {""}
        /\ "" \notin DOMAIN m
        /\ \A k \in DOMAIN m : m[k].name = k

C6_Witness ==
    /\ contents # None
    /\ Len(catalog.Images) = 2
    /\ catalog.Images[1].Name = ""
    /\ catalog.Images[2].Name = "etcd"
    /\ DOMAIN contents[1].Images = {"etcd"}

IndicesOf(j, n) == {i \in 1..Len(j.Images) : j.Images[i].Name = n}
LastIndexOf(j, n) == CHOOSE i \in IndicesOf(j, n) : \A k \in IndicesOf(j, n) : k <= i

\* C7: for every non-empty name that several input entries carry, Images
\* holds under that name the default version and the versions (format,
\* version, hash and location copied, in input order) of the last of them.
C7_LastEntryWins ==
    contents # None =>
        \A n \in NamesOf(catalog) \ {""} :
            Cardinality(IndicesOf(catalog, n)) >= 2 =>
                LET e == catalog.Images[LastIndexOf(catalog, n)]
                    m == contents[1].Images
                IN /\ n \in DOMAIN m
                   /\ m[n].defaultVersion = e.DefaultVersion
                   /\ Len(m[n].versions.elems) = Len(e.Versions)
                   /\ \A i \in 1..Len(e.Versions) :
                         /\ m[n].versions.elems[i].format = e.Versions[i].Format
                         /\ m[n].versions.elems[i].version = e.Versions[i].Version
                         /\ m[n].versions.elems[i].hash = e.Versions[i].Hash
                         /\ m[n].versions.elems[i].location = e.Versions[i].Location

C7_Witness ==
    /\ contents # None
    /\ Len(catalog.Images) = 2
    /\ catalog.Images[1].Name = "etcd"
    /\ catalog.Images[2].Name = "etcd"
    /\ catalog.Images[1].DefaultVersion = "1"
    /\ catalog.Images[2].DefaultVersion = "2"
    /\ Len(catalog.Images[1].Versions) = 1
    /\ Len(catalog.Images[2].Versions) = 2
    /\ catalog.Images[2].Versions[1] # catalog.Images[2].Versions[2]
    /\ contents[1].Images["etcd"].defaultVersion = "2"

====
